---------------------------- MODULE Spec2Model ----------------------------
(***************************************************************************)
(* Model of ct..py, the caregiver time analysis script.                    *)
(*                                                                         *)
(* The script runs top to bottom once per render: it reads                 *)
(* caregiver_times.csv (load_data), then renders four sections in order:   *)
(* "Hours Analysis", "Daily Care Visit Patterns" (the timeline), "Care     *)
(* Quality Metrics" and "Visit Time Distribution" / "Hours by Period".     *)
(* An uncaught Python exception in a section aborts the run.               *)
(*                                                                         *)
(* Times of day are whole minutes since midnight (the CSV holds HH:MM).    *)
(* Quotients the script computes in floating point (hours, averages, the   *)
(* forecast) are kept as exact fractions [num, den] of minutes; the        *)
(* rounding of the f-string display is not modelled.                       *)
(***************************************************************************)
EXTENDS Integers, Sequences, FiniteSets

(***************************************************************************)
(* Bounds of the model and the input domain.                               *)
(***************************************************************************)
MaxRows == 3

\* Calendar dates of the records (year, month, day): the last day of a
\* 31-day month and the first day of the following 29-day month.
Dates ==
    { [year |-> 2024, month |-> 1, day |-> 31],
      [year |-> 2024, month |-> 2, day |-> 1] }

\* (Coming, Going) pairs in minutes since midnight:
\*   08:00-08:05  a 5 minute visit
\*   08:05-09:00  starts the minute the first one ends
\*   11:30-11:40  exactly 10 minutes, exactly 150 minutes after 09:00
\*   11:40-11:30  departure entered before arrival
Slots ==
    { <<480, 485>>, <<485, 540>>, <<690, 700>>, <<700, 690>> }

\* Values of the 'Time of day' column (keys of CONFIG['periods']).
Periods == { "Morning", "Evening" }

\* Thresholds the short-visit predicate is compared across.
Thresholds == { 5, 6, 10, 11, 55 }

Records ==
    { [Date |-> d, Coming |-> s[1], Going |-> s[2], period |-> p] :
        d \in Dates, s \in Slots, p \in Periods }

(***************************************************************************)
(* CONFIG['visit_thresholds']                                              *)
(***************************************************************************)
short_visit == 10
short_gap == 150

VARIABLES
    pc,                 \* position of the script
    csv,                \* rows of caregiver_times.csv
    data,               \* the DataFrame load_data returns (index label i-1 at i)
    error,              \* the uncaught exception that aborted the run, or "none"
    total_minutes,      \* data['Duration'].sum()
    days_in_month,      \* calendar.monthrange(current_year, current_month)[1]
    total_days_covered, \* last_day - first_day + 1
    daily_hours,        \* total_hours / number of distinct dates
    forecasted_total,   \* daily_average * days_in_month
    fig,                \* traces added to the timeline figure, in order
    short_visits,       \* data['Short_Visit'].sum()
    all_gaps,           \* the list all_gaps
    short_gaps,         \* number of gaps below the short-gap threshold
    avg_duration,       \* data.groupby('Time of day')['Duration'].mean()
    hours_by_period     \* data.groupby('Time of day', sort=False)['Duration'].sum() / 60

vars == << pc, csv, data, error, total_minutes, days_in_month, total_days_covered,
           daily_hours, forecasted_total, fig, short_visits, all_gaps, short_gaps,
           avg_duration, hours_by_period >>

(***************************************************************************)
(* Helpers                                                                 *)
(***************************************************************************)
RECURSIVE SumSeq(_)
SumSeq(s) == IF s = << >> THEN 0 ELSE Head(s) + SumSeq(Tail(s))

RECURSIVE Concat(_)
Concat(ss) == IF ss = << >> THEN << >> ELSE Head(ss) \o Concat(Tail(ss))

SetMin(S) == CHOOSE x \in S : \A y \in S : x <= y
SetMax(S) == CHOOSE x \in S : \A y \in S : x >= y

\* Order of datetime64 values of the Date column.
DateKey(d) == d.year * 10000 + d.month * 100 + d.day

\* Lexicographic order of the period labels, as the sorted groupby compares them.
LabelRank(p) == IF p = "Evening" THEN 1 ELSE IF p = "Morning" THEN 2 ELSE 3

IsLeap(y) == (y % 4 = 0) /\ ((y % 100 # 0) \/ (y % 400 = 0))

\* calendar.monthrange(year, month)[1]
monthrange(y, m) ==
    IF m = 2 THEN (IF IsLeap(y) THEN 29 ELSE 28)
    ELSE IF m \in {4, 6, 9, 11} THEN 30 ELSE 31

(***************************************************************************)
(* load_data                                                               *)
(***************************************************************************)
Duration(r) == r.Going - r.Coming

\* Variant with an inclusive comparison, to show that C7 depends on the strict one.
Short_Visit_Inclusive(duration, threshold) == duration <= threshold

Short_Visit(duration, threshold) == duration < threshold

LoadRow(r) ==
    [Date |-> r.Date, Coming |-> r.Coming, Going |-> r.Going, period |-> r.period,
     Duration |-> Duration(r),
     Short_Visit |-> Short_Visit(Duration(r), short_visit)]

(***************************************************************************)
(* DataFrame operations                                                    *)
(***************************************************************************)
\* data['Date'].dt.date.unique(): the distinct dates in order of first appearance.
unique_dates(d) ==
    LET first == SelectSeq([i \in 1..Len(d) |-> i],
                           LAMBDA i : \A j \in 1..(i-1) : d[j].Date # d[i].Date)
    IN  [k \in 1..Len(first) |-> d[first[k]].Date]

\* sorted(...) of the distinct dates.
sorted_dates(d) ==
    LET S == { d[i].Date : i \in 1..Len(d) }
        pos(x) == 1 + Cardinality({ y \in S : DateKey(y) < DateKey(x) })
    IN  [k \in 1..Cardinality(S) |-> CHOOSE x \in S : pos(x) = k]

\* data[data['Date'].dt.date == date].sort_values('Coming'): the rows of one
\* date (as positions in data; the index label of position i is i-1) in
\* ascending order of Coming, equal keys in input order.  (sort_values uses
\* an unstable sort by default; rows of Records with equal Coming have equal
\* Going too, so the order among them changes no gap, only the order in
\* which their bars are added to the figure.)
day_data(d, date) ==
    LET S == { i \in 1..Len(d) : d[i].Date = date }
        before(j, i) == \/ d[j].Coming < d[i].Coming
                        \/ (d[j].Coming = d[i].Coming /\ j < i)
        pos(i) == 1 + Cardinality({ j \in S : before(j, i) })
    IN  [k \in 1..Cardinality(S) |-> CHOOSE i \in S : pos(i) = k]

(***************************************************************************)
(* Hours Analysis                                                          *)
(***************************************************************************)
TotalMinutes(d) == SumSeq([i \in 1..Len(d) |-> d[i].Duration])

\* monthrange of the month and year of the first row (iloc[0]).
DaysInMonth(d) == monthrange(d[1].Date.year, d[1].Date.month)

\* data['Date'].dt.day.max() - data['Date'].dt.day.min() + 1
TotalDaysCovered(d) ==
    LET days == { d[i].Date.day : i \in 1..Len(d) }
    IN  SetMax(days) - SetMin(days) + 1

\* total_hours / len(unique dates), in hours
DailyHours(d) ==
    [num |-> TotalMinutes(d), den |-> 60 * Len(unique_dates(d))]

\* (total_hours / total_days_covered) * days_in_month, in hours
ForecastedTotal(d) ==
    [num |-> TotalMinutes(d) * DaysInMonth(d), den |-> 60 * TotalDaysCovered(d)]

(***************************************************************************)
(* Daily Care Visit Patterns: the traces of one date, then of all dates    *)
(***************************************************************************)
VisitTrace(row, label) ==
    [kind |-> "visit", date |-> row.Date, label |-> label,
     x0 |-> row.Coming, x1 |-> row.Going,
     red |-> row.Duration < short_visit, name |-> row.period]

GapTrace(row, next_row, label) ==
    [kind |-> "gap", date |-> row.Date, label |-> label,
     x0 |-> row.Going, x1 |-> next_row.Coming,
     gap_duration |-> next_row.Coming - row.Going]

\* for _, row in day_data.iterrows(): _ is the row's index label, compared
\* with len(day_data) - 1 and used as a position in day_data.iloc[_ + 1].
TimelineDay(d, date) ==
    LET day == day_data(d, date)
        n   == Len(day)
        step(k) ==
            LET row   == d[day[k]]
                label == day[k] - 1
            IN  << VisitTrace(row, label) >> \o
                ( IF label < n - 1
                  THEN LET next_row     == d[day[label + 2]]
                           gap_duration == next_row.Coming - row.Going
                       IN  IF gap_duration < short_gap
                           THEN << GapTrace(row, next_row, label) >>
                           ELSE << >>
                  ELSE << >> )
    IN  Concat([k \in 1..n |-> step(k)])

Timeline(d) ==
    LET ds == sorted_dates(d)
    IN  Concat([k \in 1..Len(ds) |-> TimelineDay(d, ds[k])])

(***************************************************************************)
(* Care Quality Metrics                                                    *)
(***************************************************************************)
ShortVisitSum(d) == Cardinality({ i \in 1..Len(d) : d[i].Short_Visit })

\* Variant that pairs the rows of the whole frame without the per-date
\* filter, to show that C5 depends on the grouping by date.
GapPairs_AcrossDates(d) ==
    LET S == 1..Len(d)
        before(j, i) == \/ d[j].Coming < d[i].Coming
                        \/ (d[j].Coming = d[i].Coming /\ j < i)
        pos(i) == 1 + Cardinality({ j \in S : before(j, i) })
        all == [k \in 1..Len(d) |-> CHOOSE i \in S : pos(i) = k]
    IN  [i \in 1..(Len(d) - 1) |-> << all[i], all[i + 1] >>]

\* The pairs (day_data.iloc[i], day_data.iloc[i + 1]) the gap loop visits,
\* as positions in data, date by date in order of first appearance.
GapPairs(d) ==
    LET ds == unique_dates(d)
        ofDay(date) ==
            LET day == day_data(d, date)
            IN  [i \in 1..(Len(day) - 1) |-> << day[i], day[i + 1] >>]
    IN  Concat([k \in 1..Len(ds) |-> ofDay(ds[k])])

\* gap = day_data.iloc[i + 1]['Coming'] - day_data.iloc[i]['Going']
Gap(d, pr) == d[pr[2]].Coming - d[pr[1]].Going

AllGaps(d) ==
    LET prs == GapPairs(d)
    IN  [k \in 1..Len(prs) |-> Gap(d, prs[k])]

\* Variant with an inclusive comparison, to show that C6 depends on the strict one.
IsShortGap_Inclusive(gap) == gap <= short_gap

IsShortGap(gap) == gap < short_gap

ShortGaps(gaps) == Cardinality({ k \in 1..Len(gaps) : IsShortGap(gaps[k]) })

\* One entry of a groupby('Time of day') over Duration: the label with the
\* sum and the number of the durations of its rows (mean = sum / count).
Group(d, p) ==
    LET S == { i \in 1..Len(d) : d[i].period = p }
    IN  [period |-> p,
         sum    |-> SumSeq([k \in 1..Len(d) |-> IF k \in S THEN d[k].Duration ELSE 0]),
         count  |-> Cardinality(S)]

\* The labels in order of first appearance (groupby(..., sort=False)).
FirstSeenLabels(d) ==
    LET first == SelectSeq([i \in 1..Len(d) |-> i],
                           LAMBDA i : \A j \in 1..(i-1) : d[j].period # d[i].period)
    IN  [k \in 1..Len(first) |-> d[first[k]].period]

\* The labels in sorted order (groupby(...) with the default sort=True).
SortedLabels(d) ==
    LET S == { d[i].period : i \in 1..Len(d) }
        pos(x) == 1 + Cardinality({ y \in S : LabelRank(y) < LabelRank(x) })
    IN  [k \in 1..Cardinality(S) |-> CHOOSE x \in S : pos(x) = k]

\* Variant that keeps first-seen order, to show that C8 depends on the sort.
AvgDuration_FirstSeen(d) ==
    LET ls == FirstSeenLabels(d)
    IN  [k \in 1..Len(ls) |-> Group(d, ls[k])]

\* data.groupby('Time of day')['Duration'].mean()
AvgDuration(d) ==
    LET ls == SortedLabels(d)
    IN  [k \in 1..Len(ls) |-> Group(d, ls[k])]

\* data.groupby('Time of day', sort=False)['Duration'].sum() / 60
HoursByPeriod(d) ==
    LET ls == FirstSeenLabels(d)
    IN  [k \in 1..Len(ls) |-> [period |-> ls[k], minutes |-> Group(d, ls[k]).sum]]

(***************************************************************************)
(* The run                                                                 *)
(***************************************************************************)
Init ==
    /\ pc = "csv"
    /\ csv = << >>
    /\ data = << >>
    /\ error = "none"
    /\ total_minutes = 0
    /\ days_in_month = 0
    /\ total_days_covered = 0
    /\ daily_hours = [num |-> 0, den |-> 1]
    /\ forecasted_total = [num |-> 0, den |-> 1]
    /\ fig = << >>
    /\ short_visits = 0
    /\ all_gaps = << >>
    /\ short_gaps = 0
    /\ avg_duration = << >>
    /\ hours_by_period = << >>

\* One more record in caregiver_times.csv before the script runs.
AppendRecord(r) ==
    /\ pc = "csv"
    /\ Len(csv) < MaxRows
    /\ csv' = Append(csv, r)
    /\ UNCHANGED << pc, data, error, total_minutes, days_in_month, total_days_covered,
                    daily_hours, forecasted_total, fig, short_visits, all_gaps,
                    short_gaps, avg_duration, hours_by_period >>

load_data ==
    /\ pc = "csv"
    /\ data' = [i \in 1..Len(csv) |-> LoadRow(csv[i])]
    /\ pc' = "hours"
    /\ UNCHANGED << csv, error, total_minutes, days_in_month, total_days_covered,
                    daily_hours, forecasted_total, fig, short_visits, all_gaps,
                    short_gaps, avg_duration, hours_by_period >>

\* Lines 49-88. data['Date'].dt.month.iloc[0] raises IndexError on an empty frame.
HoursAnalysis ==
    /\ pc = "hours"
    /\ IF Len(data) = 0
       THEN /\ total_minutes' = 0
            /\ error' = "IndexError"
            /\ pc' = "crashed"
            /\ UNCHANGED << days_in_month, total_days_covered, daily_hours,
                            forecasted_total >>
       ELSE /\ total_minutes' = TotalMinutes(data)
            /\ days_in_month' = DaysInMonth(data)
            /\ total_days_covered' = TotalDaysCovered(data)
            /\ daily_hours' = DailyHours(data)
            /\ forecasted_total' = ForecastedTotal(data)
            /\ pc' = "timeline"
            /\ UNCHANGED error
    /\ UNCHANGED << csv, data, fig, short_visits, all_gaps, short_gaps,
                    avg_duration, hours_by_period >>

\* Lines 90-168.
DailyTimeline ==
    /\ pc = "timeline"
    /\ fig' = Timeline(data)
    /\ pc' = "metrics"
    /\ UNCHANGED << csv, data, error, total_minutes, days_in_month, total_days_covered,
                    daily_hours, forecasted_total, short_visits, all_gaps, short_gaps,
                    avg_duration, hours_by_period >>

\* Lines 170-198. short_gaps / len(all_gaps) raises ZeroDivisionError when
\* all_gaps is empty, before avg_duration is computed.
CareQualityMetrics ==
    /\ pc = "metrics"
    /\ short_visits' = ShortVisitSum(data)
    /\ all_gaps' = AllGaps(data)
    /\ short_gaps' = ShortGaps(AllGaps(data))
    /\ IF Len(AllGaps(data)) = 0
       THEN /\ error' = "ZeroDivisionError"
            /\ pc' = "crashed"
            /\ UNCHANGED avg_duration
       ELSE /\ avg_duration' = AvgDuration(data)
            /\ pc' = "distribution"
            /\ UNCHANGED error
    /\ UNCHANGED << csv, data, total_minutes, days_in_month, total_days_covered,
                    daily_hours, forecasted_total, fig, hours_by_period >>

\* Lines 200-240.
VisitTimeDistribution ==
    /\ pc = "distribution"
    /\ hours_by_period' = HoursByPeriod(data)
    /\ pc' = "done"
    /\ UNCHANGED << csv, data, error, total_minutes, days_in_month, total_days_covered,
                    daily_hours, forecasted_total, fig, short_visits, all_gaps,
                    short_gaps, avg_duration >>

Next ==
    \/ \E r \in Records : AppendRecord(r)
    \/ load_data
    \/ HoursAnalysis
    \/ DailyTimeline
    \/ CareQualityMetrics
    \/ VisitTimeDistribution

Spec == Init /\ [][Next]_vars

(***************************************************************************)
(* Properties                                                              *)
(***************************************************************************)
Rows == 1..Len(data)

\* The Hours Analysis section has computed its metrics.
HoursRan == pc \in {"timeline", "metrics", "distribution", "done"}
            \/ (pc = "crashed" /\ error = "ZeroDivisionError")

\* The Care Quality Metrics section has computed short_visits and all_gaps.
MetricsRan == pc \in {"distribution", "done"}
              \/ (pc = "crashed" /\ error = "ZeroDivisionError")

DatesOf(d) == { d[i].Date : i \in 1..Len(d) }
VisitsOn(d, date) == { i \in 1..Len(d) : d[i].Date = date }

\* date.toordinal(): days since 0001-01-01 in the proleptic Gregorian calendar.
RECURSIVE DaysBeforeMonth(_, _)
DaysBeforeMonth(y, m) ==
    IF m = 1 THEN 0 ELSE DaysBeforeMonth(y, m - 1) + monthrange(y, m - 1)

Ordinal(d) ==
    LET y == d.year - 1
    IN  365 * y + (y \div 4) - (y \div 100) + (y \div 400)
        + DaysBeforeMonth(d.year, d.month) + d.day

FirstDate(d) == CHOOSE x \in DatesOf(d) : \A y \in DatesOf(d) : DateKey(x) <= DateKey(y)
LastDate(d)  == CHOOSE x \in DatesOf(d) : \A y \in DatesOf(d) : DateKey(x) >= DateKey(y)

\* last_date - first_date + 1, the inclusive calendar-date span
CoverageDays(d) == Ordinal(LastDate(d)) - Ordinal(FirstDate(d)) + 1

\* C1: for every non-empty visit set the forecasted month total equals
\* (total_hours / coverage_days) x days_in_calendar_month(first_date), with
\* coverage_days the inclusive calendar-date span from the earliest to the
\* latest visit date, also when the dates span more than one calendar month.
\* As fractions of hours: num/den = (total_minutes * dim) / (60 * coverage_days).
C1_ForecastBySpan ==
    HoursRan =>
        forecasted_total.num * (60 * CoverageDays(data))
          = (total_minutes * monthrange(FirstDate(data).year, FirstDate(data).month))
            * forecasted_total.den

\* C2: two consecutive visits of one date that overlap give a gap of zero
\* duration; no gap with a negative duration is ever produced or counted.
C2_NoNegativeGap ==
    MetricsRan =>
        /\ \A k \in 1..Len(all_gaps) : all_gaps[k] >= 0
        /\ \A k \in 1..Len(fig) : fig[k].kind = "gap" => fig[k].gap_duration >= 0

\* C3: every derived visit has duration_minutes = departure - arrival >= 0; a
\* record whose departure precedes its arrival never becomes a visit.
C3_DurationNonNegative ==
    pc # "csv" => \A i \in Rows : data[i].Duration >= 0

\* C4: with zero gaps the short-gap statistics are non-fatal: the run does
\* not abort and the remaining metrics (average duration) are still produced.
C4_NoGapsNonFatal ==
    (MetricsRan /\ Len(all_gaps) = 0) => (pc # "crashed" /\ avg_duration # << >>)

GapsExpectedOn(d, date) ==
    IF Cardinality(VisitsOn(d, date)) >= 2 THEN Cardinality(VisitsOn(d, date)) - 1 ELSE 0

RECURSIVE GapsExpected(_, _)
GapsExpected(S, d) ==
    IF S = {} THEN 0
    ELSE LET x == CHOOSE x \in S : TRUE
         IN  GapsExpectedOn(d, x) + GapsExpected(S \ {x}, d)

\* C5: the number of gaps derived for the statistics is the sum over the
\* dates with at least two visits of (visits on that date - 1); a date with
\* one visit contributes no gap and no gap pairs visits of two dates.
C5_GapCount ==
    MetricsRan =>
        /\ Len(all_gaps) = GapsExpected(DatesOf(data), data)
        /\ \A k \in 1..Len(GapPairs(data)) :
              LET pr == GapPairs(data)[k]
              IN  /\ data[pr[1]].Date = data[pr[2]].Date
                  /\ Cardinality(VisitsOn(data, data[pr[1]].Date)) >= 2

C5_Witness ==
    /\ pc = "done"
    /\ Len(all_gaps) = 1
    /\ \E x \in DatesOf(data) : Cardinality(VisitsOn(data, x)) = 1
    /\ \E x \in DatesOf(data) : Cardinality(VisitsOn(data, x)) = 2

\* C6: per date, with the date's visits in ascending order of arrival, every
\* gap is between positionally adjacent visits i and i+1 (no visit of the
\* date arrives strictly between them), its duration is arrival(i+1) -
\* departure(i), and it counts as short iff that is strictly below 150; two
\* visits 08:00-08:05 and 08:05-09:00 give one gap of 0 minutes, short.
C6_AdjacentGaps ==
    MetricsRan =>
        LET prs == GapPairs(data)
        IN  /\ Len(all_gaps) = Len(prs)
            /\ \A k \in 1..Len(prs) :
                  LET i == prs[k][1]
                      j == prs[k][2]
                  IN  /\ i # j
                      /\ data[i].Date = data[j].Date
                      /\ data[i].Coming <= data[j].Coming
                      /\ \A m \in VisitsOn(data, data[i].Date) :
                            ~(data[i].Coming < data[m].Coming
                              /\ data[m].Coming < data[j].Coming)
                      /\ all_gaps[k] = data[j].Coming - data[i].Going
            /\ \A x \in DatesOf(data) :
                  LET day == day_data(data, x)
                  IN  /\ { day[k] : k \in 1..Len(day) } = VisitsOn(data, x)
                      /\ Len(day) = Cardinality(VisitsOn(data, x))
                      /\ \A k \in 1..(Len(day) - 1) :
                            \E n \in 1..Len(prs) : prs[n] = << day[k], day[k + 1] >>
            /\ short_gaps = Cardinality({ k \in 1..Len(all_gaps) : all_gaps[k] < 150 })
            /\ ( /\ Len(data) = 2
                 /\ data[1].Date = data[2].Date
                 /\ { << data[1].Coming, data[1].Going >>,
                      << data[2].Coming, data[2].Going >> }
                      = { << 480, 485 >>, << 485, 540 >> } )
               => (all_gaps = << 0 >> /\ short_gaps = 1)

\* 08:05-09:00, 11:30-11:40, 08:00-08:05 on one date: gaps of 0 and of
\* exactly 150 minutes, of which only the first is short.
C6_Witness ==
    /\ pc = "done"
    /\ Len(data) = 3
    /\ data[1].Coming = 485
    /\ all_gaps = << 0, 150 >>
    /\ short_gaps = 1

ShortCount(d, threshold) ==
    Cardinality({ i \in 1..Len(d) : Short_Visit(d[i].Duration, threshold) })

\* C7: a visit is flagged short iff its duration is strictly below the
\* short-visit threshold (exactly the threshold is not short), the reported
\* count is the number of such visits, and lowering the threshold never
\* increases the count for a fixed visit set.
C7_ShortVisit ==
    /\ pc # "csv" =>
          \A i \in Rows :
              data[i].Short_Visit <=> (data[i].Going - data[i].Coming < 10)
    /\ MetricsRan =>
          /\ short_visits
               = Cardinality({ i \in Rows : data[i].Going - data[i].Coming < 10 })
          /\ short_visits = ShortCount(data, short_visit)
          /\ \A t1 \in Thresholds : \A t2 \in Thresholds :
                t1 <= t2 => ShortCount(data, t1) <= ShortCount(data, t2)
          /\ \A t \in Thresholds : \A i \in Rows :
                data[i].Duration = t => ~Short_Visit(data[i].Duration, t)

C7_Witness ==
    /\ pc = "done"
    /\ \E i \in Rows : data[i].Duration = 10 /\ ~data[i].Short_Visit
    /\ \E i \in Rows : data[i].Duration = 5 /\ data[i].Short_Visit
    /\ short_visits = 1
    /\ ShortCount(data, 11) = 2

FirstRowWith(d, p) == SetMin({ i \in 1..Len(d) : d[i].period = p })

EntriesExact(groups) ==
    /\ { groups[k].period : k \in 1..Len(groups) } = { data[i].period : i \in Rows }
    /\ \A k \in 1..Len(groups) : \A l \in 1..Len(groups) :
          groups[k].period = groups[l].period => k = l

\* C8 as stated: the per-period average durations come in first-seen order of
\* the period labels in the input, not in alphabetical order.
C8_AvgFirstSeenOrder ==
    pc \in {"distribution", "done"} =>
        \A k \in 1..Len(avg_duration) : \A l \in 1..Len(avg_duration) :
            k < l => FirstRowWith(data, avg_duration[k].period)
                       < FirstRowWith(data, avg_duration[l].period)

\* C8 amended: the per-period average durations come in ascending
\* lexicographic order of the period labels; the per-period hour totals come
\* in first-seen order; each entry is over exactly the visits carrying its
\* label (mean = sum / count), one entry per label present.
C8_AvgSortedOrder ==
    /\ pc \in {"distribution", "done"} =>
          /\ EntriesExact(avg_duration)
          /\ \A k \in 1..Len(avg_duration) : \A l \in 1..Len(avg_duration) :
                k < l => LabelRank(avg_duration[k].period)
                           < LabelRank(avg_duration[l].period)
          /\ \A k \in 1..Len(avg_duration) :
                LET S == { i \in Rows : data[i].period = avg_duration[k].period }
                IN  /\ avg_duration[k].count = Cardinality(S)
                    /\ avg_duration[k].count > 0
                    /\ avg_duration[k].sum
                         = SumSeq([i \in Rows |-> IF i \in S THEN data[i].Going - data[i].Coming
                                                  ELSE 0])
    /\ pc = "done" =>
          /\ EntriesExact(hours_by_period)
          /\ \A k \in 1..Len(hours_by_period) : \A l \in 1..Len(hours_by_period) :
                k < l => FirstRowWith(data, hours_by_period[k].period)
                           < FirstRowWith(data, hours_by_period[l].period)

\* "Morning" is seen first, "Evening" later, and the averages start with "Evening".
C8_Witness ==
    /\ pc = "done"
    /\ data[1].period = "Morning"
    /\ Len(avg_duration) = 2
    /\ avg_duration[1].period = "Evening"
    /\ hours_by_period[1].period = "Morning"

GapTraces == { k \in 1..Len(fig) : fig[k].kind = "gap" }

\* C9: the timeline draws a gap marker for exactly the adjacent pairs (in
\* arrival order per date) whose gap is below the short-gap threshold, so the
\* number of markers equals the 'Short Gaps' count, whatever rows of the input
\* table the date's visits occupy.
C9_TimelineAgrees ==
    MetricsRan =>
        /\ Cardinality(GapTraces) = short_gaps
        /\ { << fig[k].date, fig[k].x0, fig[k].x1 >> : k \in GapTraces }
             = { << data[pr[1]].Date, data[pr[1]].Going, data[pr[2]].Coming >> :
                   pr \in { GapPairs(data)[n] :
                              n \in { m \in 1..Len(all_gaps) : all_gaps[m] < short_gap } } }

\* C10: with non-negative durations the forecasted month total is never below
\* the total hours used (hours remaining >= 0); equivalently
\* total_days_covered never exceeds days_in_month.
C10_ForecastAtLeastTotal ==
    (HoursRan /\ \A i \in Rows : data[i].Duration >= 0) =>
        /\ forecasted_total.num * 60 >= total_minutes * forecasted_total.den
        /\ total_days_covered <= days_in_month

====
